---- MODULE Spec2Model ----
(***************************************************************************)
(* Model of the vanilla web engine (src/vanilla.py): the request router,   *)
(* the thread-local http context and the request lifecycle of Engine.wsgi. *)
(***************************************************************************)
EXTENDS Integers, Sequences, FiniteSets, TLC

\* ------------------------------------------------------------------ bounds
MaxRules == 2

\* --------------------------------------------------------------- constants
\* _HTTP_METHOD, in list order (vanilla.py:46-47); there is no HEAD entry.
HTTP_METHOD == <<"GET", "POST", "PUT", "DELETE", "TRACE", "CONNECT", "OPTION", "ANY">>

HTTP_METHOD_SET == {HTTP_METHOD[i] : i \in 1..Len(HTTP_METHOD)}

\* str.upper() on the method tokens the model uses.
Upper(tok) ==
    CASE tok = "get"  -> "GET"
      [] tok = "head" -> "HEAD"
      [] OTHER        -> tok

\* Url paths are sequences of segments: <<>> is "/", <<"a">> is "/a".
Paths == {<< >>, <<"a">>, <<"a", "b">>}

\* A regex is a literal prefix with or without a trailing "$":
\* [lit |-> <<"a">>, end |-> TRUE] is "/a$", [lit |-> <<>>, end |-> FALSE] is "/".
Patterns == {[lit |-> << >>, end |-> FALSE],
             [lit |-> <<"a">>, end |-> FALSE],
             [lit |-> <<"a">>, end |-> TRUE]}

Callbacks == {"index"}

IsPrefix(s, t) == Len(s) <= Len(t) /\ SubSeq(t, 1, Len(s)) = s

\* rule.regex.match(url): re.match anchors at the start only.
RegexMatch(regex, url) ==
    /\ IsPrefix(regex.lit, url)
    /\ (regex.end => Len(url) = Len(regex.lit))

\* ------------------------------------------------------------ http values
MaxRoutes == 1
MaxHooks == 1
MaxRequests == 1

ThreadIds == {1, 2}

\* Python values that travel as response bodies.
Str(s)   == [t |-> "str", v |-> s]
Bytes(s) == [t |-> "bytes", v |-> s]
List(xs) == [t |-> "list", v |-> xs]
Unbound  == [t |-> "unbound", v |-> ""]

\* u2b: text is encoded, anything else passes through.
U2B(x) == IF x.t = "str" THEN Bytes(x.v) ELSE x

HTTP_ERROR_PAGE_CONTENT == Str("<html><title>oops</title>")

\* format_exc()
FormatExc == Str("Traceback")

\* _HTTP_STATUS = httplib.responses, for the codes the model uses.
HTTP_STATUS == [c \in {200, 201, 403, 404, 500} |->
    CASE c = 200 -> "OK"
      [] c = 201 -> "Created"
      [] c = 403 -> "Forbidden"
      [] c = 404 -> "Not Found"
      [] c = 500 -> "Internal Server Error"]

default_content_type == "text/html; charset=UTF-8"

\* HttpResponse.__init__
HttpResponse(status, body) ==
    [set |-> TRUE, iserr |-> FALSE, status |-> status, headers |-> << >>, body |-> body]

\* HttpError.__init__(status, body=""): a response that is also an exception.
HttpError(status) == [HttpResponse(status, Str("")) EXCEPT !.iserr = TRUE]

NoResponse ==
    [set |-> FALSE, iserr |-> FALSE, status |-> 0, headers |-> << >>, body |-> Unbound]

HasHeader(headers, name) == \E i \in 1..Len(headers) : headers[i].name = name

\* HttpResponse.add_header
add_header(response, name, value) ==
    IF HasHeader(response.headers, name)
    THEN [response EXCEPT !.headers =
            [i \in 1..Len(@) |-> IF @[i].name = name
                                 THEN [@[i] EXCEPT !.values = Append(@, value)]
                                 ELSE @[i]]]
    ELSE [response EXCEPT !.headers = Append(@, [name |-> name, values |-> <<value>>])]

\* HttpResponse.set_status, for an integer argument
set_status(response, code) == [response EXCEPT !.status = code]

RECURSIVE Flatten(_)
Flatten(headers) ==
    IF headers = << >> THEN << >>
    ELSE [i \in 1..Len(Head(headers).values) |-> <<Head(headers).name, Head(headers).values[i]>>]
         \o Flatten(Tail(headers))

\* HttpResponse.header_fields
header_fields(response) ==
    (IF ~HasHeader(response.headers, "Content-Type")
     THEN << <<"Context-Type", default_content_type>> >> ELSE << >>)
    \o Flatten(response.headers)

\* HttpResponse.status_line: "%d %s"
status_lineKnownOnly(response) ==
    <<response.status,
      IF response.status \in DOMAIN HTTP_STATUS THEN HTTP_STATUS[response.status] ELSE "">>

status_line(response) ==
    IF response.status \in DOMAIN HTTP_STATUS
    THEN <<response.status, HTTP_STATUS[response.status]>>
    ELSE <<response.status, "Unknown Status">>

\* HttpRequest
NoEnviron == [REQUEST_METHOD |-> "", PATH_INFO |-> << >>, file_wrapper |-> FALSE]
NoRequest == [set |-> FALSE, environ |-> NoEnviron]
HttpRequest(e) == [set |-> TRUE, environ |-> e]
Method(request) == Upper(request.environ.REQUEST_METHOD)
Path(request) == request.environ.PATH_INFO

\* What the transport delivers.
Environs == [REQUEST_METHOD : {"GET", "POST", "HEAD", "OPTIONS"},
             PATH_INFO : {<<"a">>, <<"a", "b">>},
             file_wrapper : {FALSE}]

\* HttpContext: thread_ctx is a threading.local, so each thread reads and
\* writes the dict of its own thread.
CtxKeyShared(t) == 1

CtxKey(t) == t

\* A context field that was never stored.
NoRule == [id |-> 0]

EmptyCtx == [request |-> NoRequest, response |-> NoResponse, rule |-> NoRule]

\* ------------------------------------------------------- user callbacks
\* What a callback does is up to the application: each invocation picks an
\* effect on the context response and an outcome.
Ret(v)     == [k |-> "ret", v |-> v, status |-> 0]
Abort(v)   == [k |-> "abort", v |-> v, status |-> 0]    \* Engine.abort(buf)
Http(code) == [k |-> "http", v |-> Str(""), status |-> code]  \* raise HttpError(code)
Exc        == [k |-> "exc", v |-> Str(""), status |-> 0]  \* any other exception

HookOutcomes    == {Ret(Unbound), Abort(Str("A")), Http(403), Exc}
HandlerOutcomes == {Ret(Str("B")), Ret(Str("")), Abort(Str("A")), Http(403), Exc}
ErrPageOutcomes == {Ret(Str("page")), Abort(Str("A")), Http(403), Exc}

PreEffects     == {"add_header"}
HandlerEffects == {"none", "set_status"}
PostEffects    == {"add_header", "set_body"}

ApplyEffect(response, ev, eff) ==
    CASE eff = "add_header" ->
            add_header(response, IF ev = "pre" THEN "framework-pre-set"
                                 ELSE "framework-post-set", "vanilla")
      [] eff = "set_status" -> set_status(response, 201)
      [] eff = "set_body"   -> [response EXCEPT !.body = Str("C")]
      [] OTHER              -> response

Event(ev, n, eff, o) == [ev |-> ev, n |-> n, eff |-> eff, o |-> o]

NoOut == [called |-> FALSE, status_line |-> <<0, "">>, header_fields |-> << >>, body |-> Unbound]

\* ------------------------------------------------------------------ state
VARIABLES
    method_table,           \* RequestRouter.method_table: method -> list of rules
    router_ret,             \* outcome of the most recent direct router call
    debug,                  \* Engine.debug
    catch,                  \* Engine.catch
    err_handler,            \* keys of Engine.err_handler
    request_preprocessor,   \* Engine.request_preprocessor
    request_postprocessor,  \* Engine.request_postprocessor
    threads,                \* the threads of the hosting transport
    pc,                     \* per thread: position in Engine.wsgi
    environ,                \* per thread: the environ argument of wsgi
    ctx,                    \* HttpContext.thread_ctx: one dict per thread
    buf,                    \* per thread: value returned by _request_handler
    buf_exc,                \* per thread: local _buf_exc of _request_handler
    idx,                    \* per thread: position in the running hook list
    hist,                   \* per thread: callbacks invoked in this request
    out,                    \* per thread: what wsgi gave to the transport
    served,                 \* per thread: requests received so far
    rq,                     \* an HttpRequest whose data is read directly
    rs,                     \* an HttpResponse used directly, and its last call
    rl                      \* a RequestRule used directly, and its last call

routerVars == <<method_table, router_ret>>
engineVars == <<debug, catch, err_handler, request_preprocessor, request_postprocessor>>
threadVars == <<threads, pc, environ, ctx, buf, buf_exc, idx, hist, out, served>>
unitVars == <<rq, rs, rl>>
vars == <<routerVars, engineVars, threadVars, unitVars>>

\* ----------------------------------------------------------------- router
RECURSIVE SumLen(_, _)
SumLen(table, ms) ==
    IF ms = {} THEN 0
    ELSE LET m == CHOOSE x \in ms : TRUE
         IN Len(table[m]) + SumLen(table, ms \ {m})

RuleCount(table) == SumLen(table, DOMAIN table)

\* RequestRule(regex, callback): every call builds a new rule object.
RequestRule(regex, callback, id) ==
    [id |-> id, regex |-> regex, handler |-> callback]

\* `if not isinstance(methods, list): methods = [methods]`
\* An argument is a list (field l) or a single token (field s).
AsList(methods) == IF methods.islist THEN methods.l ELSE <<methods.s>>

\* The loop of RequestRouter.insert from position i on.
RECURSIVE InsertLoopSkip(_, _, _, _, _)
InsertLoopSkip(table, methods, i, regex, callback) ==
    IF i > Len(methods) THEN [table |-> table, raised |-> "none"]
    ELSE LET method == Upper(methods[i])
         IN IF method \notin HTTP_METHOD_SET
            THEN InsertLoopSkip(table, methods, i + 1, regex, callback)
            ELSE InsertLoopSkip(
                   [table EXCEPT ![method] =
                       Append(@, RequestRule(regex, callback, RuleCount(table) + 1))],
                   methods, i + 1, regex, callback)

RECURSIVE InsertLoop(_, _, _, _, _)
InsertLoop(table, methods, i, regex, callback) ==
    IF i > Len(methods) THEN [table |-> table, raised |-> "none"]
    ELSE LET method == Upper(methods[i])
         IN IF method \notin HTTP_METHOD_SET
            THEN [table |-> table, raised |-> "RouterError"]
            ELSE InsertLoop(
                   [table EXCEPT ![method] =
                       Append(@, RequestRule(regex, callback, RuleCount(table) + 1))],
                   methods, i + 1, regex, callback)

Matching(rules, url) == {i \in 1..Len(rules) : RegexMatch(rules[i].regex, url)}

MinOf(S) == CHOOSE i \in S : \A j \in S : i <= j
MaxOf(S) == CHOOSE i \in S : \A j \in S : i >= j

\* `for rule in table: if rule.regex.match(url): return rule`
FirstMatchLast(rules, url) == rules[MaxOf(Matching(rules, url))]

FirstMatch(rules, url) == rules[MinOf(Matching(rules, url))]

\* RequestRouter.match.  `same` says whether the method string is the very
\* object of the literal it is compared with by `is` (an implementation
\* matter for a string built at run time, so callers choose it freely).
RECURSIVE Match(_, _, _, _)
Match(table, method, url, same) ==
    IF method \notin DOMAIN table
    THEN [kind |-> "KeyError", rule |-> NoRule, status |-> 0]
    ELSE IF Matching(table[method], url) # {}
    THEN [kind |-> "rule", rule |-> FirstMatch(table[method], url), status |-> 0]
    ELSE IF method = "HEAD" /\ same
    THEN Match(table, "GET", url, TRUE)
    ELSE IF ~(method = "ANY" /\ same)
    THEN Match(table, "ANY", url, TRUE)
    ELSE [kind |-> "HttpError", rule |-> NoRule, status |-> 404]


\* ------------------------------------------------------- engine lifecycle
\* Result of one step of _request_handler: where control goes, the context
\* response, the local _buf_exc and the value to return (when returning).
Step(p, response, bufexc, b) ==
    [pc |-> p, response |-> response, buf_exc |-> bufexc, buf |-> b]

\* `self.content.response = _errno()`: the raised error response takes the
\* place of the response the hooks and the handler worked on.
ReplaceResponseKeepLive(old, new) == [old EXCEPT !.status = new.status, !.iserr = TRUE]

ReplaceResponseKeepHeaders(old, new) == [new EXCEPT !.headers = old.headers]

ReplaceResponse(old, new) == new

\* The except clauses of the try block of _request_handler, for an outcome
\* o that is not a normal return.
TryExceptAbortAsError(o, response, bufexc) ==
    CASE o.k = "abort" -> Step("error", ReplaceResponse(response, HttpError(500)), bufexc, Unbound)
      [] o.k = "http"  -> Step("error", ReplaceResponse(response, HttpError(o.status)), bufexc, Unbound)
      [] OTHER ->
            IF ~catch THEN Step("raised", response, bufexc, Unbound)
            ELSE Step("error", ReplaceResponse(response, HttpError(500)),
                      IF debug THEN FormatExc ELSE bufexc, Unbound)

TryExceptAlwaysCatch(o, response, bufexc) ==
    CASE o.k = "abort" -> Step("output", response, bufexc, o.v)
      [] o.k = "http"  -> Step("error", ReplaceResponse(response, HttpError(o.status)), bufexc, Unbound)
      [] OTHER -> Step("error", ReplaceResponse(response, HttpError(500)),
                       IF debug THEN FormatExc ELSE bufexc, Unbound)

TryExceptAbortFresh(o, response, bufexc) ==
    CASE o.k = "abort" -> Step("output", HttpResponse(200, Str("")), bufexc, o.v)
      [] o.k = "http"  -> Step("error", ReplaceResponse(response, HttpError(o.status)), bufexc, Unbound)
      [] OTHER ->
            IF ~catch THEN Step("raised", response, bufexc, Unbound)
            ELSE Step("error", ReplaceResponse(response, HttpError(500)),
                      IF debug THEN FormatExc ELSE bufexc, Unbound)

TryExcept(o, response, bufexc) ==
    CASE o.k = "abort" -> Step("output", response, bufexc, o.v)
      [] o.k = "http"  -> Step("error", ReplaceResponse(response, HttpError(o.status)), bufexc, Unbound)
      [] OTHER ->
            IF ~catch THEN Step("raised", response, bufexc, Unbound)
            ELSE Step("error", ReplaceResponse(response, HttpError(500)),
                      IF debug THEN FormatExc ELSE bufexc, Unbound)

\* `try: return _buf_exc  except NameError: return _buf`
ReturnBufNoTrace(bufexc, b) == b

ReturnBuf(bufexc, b) == IF bufexc # Unbound THEN bufexc ELSE b

\* The error-page part of _request_handler once the callback, if one is
\* registered for the status, has ended with outcome o.
ErrorPageKeepStatus(response, bufexc, registered, o) ==
    IF registered
    THEN IF o.k = "ret"
         THEN Step("output", response, bufexc, ReturnBuf(bufexc, o.v))
         ELSE LET e == IF debug THEN FormatExc ELSE bufexc
              IN Step("output", response, e, ReturnBuf(e, HTTP_ERROR_PAGE_CONTENT))
    ELSE Step("output", response, bufexc, ReturnBuf(bufexc, HTTP_ERROR_PAGE_CONTENT))

ErrorPage(response, bufexc, registered, o) ==
    IF registered
    THEN IF o.k = "ret"
         THEN Step("output", response, bufexc, ReturnBuf(bufexc, o.v))
         ELSE LET e == IF debug THEN FormatExc ELSE bufexc
              IN Step("output", ReplaceResponse(response, HttpError(500)), e,
                      ReturnBuf(e, HTTP_ERROR_PAGE_CONTENT))
    ELSE Step("output", response, bufexc, ReturnBuf(bufexc, HTTP_ERROR_PAGE_CONTENT))

\* Engine._make_output: the response with its body made WSGI compatible.
MakeOutput(request, response, b) ==
    LET b1 == IF Method(request) = "HEAD" THEN Str("") ELSE b
    IN IF b1 = Str("") THEN [response EXCEPT !.body = List(<<U2B(b1)>>)]
       ELSE IF b1.t = "file"
       THEN IF request.environ.file_wrapper
            THEN [response EXCEPT !.body = [t |-> "wrapped", v |-> b1.v]]
            ELSE [response EXCEPT !.body = b1]
       ELSE [response EXCEPT !.body = List(<<U2B(b1)>>)]

\* Engine.__init__
EngineInit ==
    /\ debug \in BOOLEAN
    /\ catch \in BOOLEAN
    /\ err_handler = {}
    /\ request_preprocessor = << >>
    /\ request_postprocessor = << >>

\* No request or response object is in direct use.
UnitIdle ==
    /\ rq = [used |-> FALSE]
    /\ rs = [used |-> FALSE]
    /\ rl = [used |-> FALSE]

\* No request has been received: HttpContext.__init__ made an empty local.
ThreadInit(T) ==
    /\ threads = T
    /\ pc = [t \in ThreadIds |-> "idle"]
    /\ environ = [t \in ThreadIds |-> NoEnviron]
    /\ ctx = [t \in ThreadIds |-> EmptyCtx]
    /\ buf = [t \in ThreadIds |-> Unbound]
    /\ buf_exc = [t \in ThreadIds |-> Unbound]
    /\ idx = [t \in ThreadIds |-> 0]
    /\ hist = [t \in ThreadIds |-> << >>]
    /\ out = [t \in ThreadIds |-> NoOut]
    /\ served = [t \in ThreadIds |-> 0]

\* ------------------------------------------------------------ router calls
InsertTokens == {"GET", "get", "POST", "ANY", "HEAD", "BOGUS"}

MethodArgs ==
    {[islist |-> FALSE, s |-> t, l |-> << >>] : t \in InsertTokens}
    \cup {[islist |-> TRUE, s |-> "", l |-> <<t>>] : t \in {"GET", "BOGUS"}}
    \cup {[islist |-> TRUE, s |-> "", l |-> <<t, u>>] : t \in {"GET", "BOGUS"}, u \in {"ANY", "BOGUS"}}

MatchTokens == {"GET", "POST", "ANY", "HEAD", "OPTIONS", "PATCH"}

NoCall == [op |-> "none"]

Insert(methods, regex, callback) ==
    /\ UNCHANGED <<engineVars, threadVars, unitVars>>
    /\ RuleCount(method_table) + Len(AsList(methods)) <= MaxRules
    /\ LET r == InsertLoop(method_table, AsList(methods), 1, regex, callback)
       IN /\ method_table' = r.table
          /\ router_ret' = [op |-> "insert", methods |-> AsList(methods),
                            raised |-> r.raised]

MatchCall(method, url, same) ==
    /\ router_ret' = [op |-> "match", method |-> method, url |-> url,
                      res |-> Match(method_table, method, url, same)]
    /\ UNCHANGED <<method_table, engineVars, threadVars, unitVars>>

\* An application just constructed with the defaults of Engine.__init__.
AppIdle ==
    /\ method_table = [m \in HTTP_METHOD_SET |-> << >>]
    /\ router_ret = NoCall
    /\ debug = FALSE /\ catch = TRUE
    /\ err_handler = {}
    /\ request_preprocessor = << >>
    /\ request_postprocessor = << >>
    /\ ThreadInit({1})

RouterInit ==
    /\ AppIdle
    /\ UnitIdle

RouterInsert == \E m \in MethodArgs, p \in Patterns, c \in Callbacks : Insert(m, p, c)

RouterMatch == \E m \in MatchTokens, u \in Paths, s \in BOOLEAN : MatchCall(m, u, s)

RouterNext == RouterInsert \/ RouterMatch

SpecRouter == RouterInit /\ [][RouterNext]_vars

\* ------------------------------------------------------------ registration
\* Registration happens while the application is set up, before the
\* transport delivers the first request.
NotServing == \A t \in ThreadIds : pc[t] = "idle" /\ served[t] = 0

RouteArgs == {[islist |-> FALSE, s |-> "GET", l |-> << >>],
              [islist |-> TRUE, s |-> "", l |-> <<"ANY">>]}

RoutePatterns == {[lit |-> <<"a">>, end |-> TRUE]}

\* Engine.route(regex, methods, callback), with supported methods
EngineRoute ==
    /\ NotServing
    /\ RuleCount(method_table) < MaxRoutes
    /\ \E m \in RouteArgs, p \in RoutePatterns :
          method_table' = InsertLoop(method_table, AsList(m), 1, p, "index").table
    /\ UNCHANGED <<router_ret, engineVars, threadVars, unitVars>>

\* Engine.pre_request(callback)
PreRequest ==
    /\ NotServing
    /\ Len(request_preprocessor) < MaxHooks
    /\ request_preprocessor' = Append(request_preprocessor, Len(request_preprocessor) + 1)
    /\ UNCHANGED <<unitVars, routerVars, debug, catch, err_handler, request_postprocessor, threadVars>>

\* Engine.post_request(callback)
PostRequest ==
    /\ NotServing
    /\ Len(request_postprocessor) < MaxHooks
    /\ request_postprocessor' = Append(request_postprocessor, Len(request_postprocessor) + 1)
    /\ UNCHANGED <<unitVars, routerVars, debug, catch, err_handler, request_preprocessor, threadVars>>

ErrorCodes == {403, 404, 500}

\* Engine.error_page(http_error_code, callback)
RegisterErrorPage ==
    /\ NotServing
    /\ \E c \in ErrorCodes : err_handler' = err_handler \cup {c}
    /\ UNCHANGED <<unitVars, routerVars, debug, catch, request_preprocessor, request_postprocessor, threadVars>>

\* ---------------------------------------------------------------- serving
\* The frame of a step of thread t: everything but the thread's own slots.
Goto(t, r, h) ==
    /\ pc' = [pc EXCEPT ![t] = r.pc]
    /\ ctx' = [ctx EXCEPT ![CtxKey(t)].response = r.response]
    /\ buf_exc' = [buf_exc EXCEPT ![t] = r.buf_exc]
    /\ buf' = [buf EXCEPT ![t] = r.buf]
    /\ hist' = [hist EXCEPT ![t] = Append(@, h)]

\* wsgi() is entered; _request_handler stores a new request and response.
Start(t, e) ==
    /\ pc[t] \in {"idle", "done", "raised"}
    /\ served[t] < MaxRequests
    /\ served' = [served EXCEPT ![t] = @ + 1]
    /\ environ' = [environ EXCEPT ![t] = e]
    /\ ctx' = [ctx EXCEPT ![CtxKey(t)].request = HttpRequest(e),
                          ![CtxKey(t)].response = HttpResponse(200, Str(""))]
    /\ pc' = [pc EXCEPT ![t] = "routing"]
    /\ buf' = [buf EXCEPT ![t] = Unbound]
    /\ buf_exc' = [buf_exc EXCEPT ![t] = Unbound]
    /\ idx' = [idx EXCEPT ![t] = 0]
    /\ hist' = [hist EXCEPT ![t] = << >>]
    /\ out' = [out EXCEPT ![t] = NoOut]
    /\ UNCHANGED <<unitVars, routerVars, engineVars, threads>>

\* `rule = self.router.match(...)`, `self.content.rule = rule`
Route(t, same) ==
    /\ pc[t] = "routing"
    /\ LET c   == ctx[CtxKey(t)]
           res == Match(method_table, Method(c.request), Path(c.request), same)
       IN IF res.kind = "rule"
          THEN /\ ctx' = [ctx EXCEPT ![CtxKey(t)].rule = res.rule]
               /\ pc' = [pc EXCEPT ![t] = IF Len(request_preprocessor) > 0
                                           THEN "pre" ELSE "handler"]
               /\ idx' = [idx EXCEPT ![t] = 1]
               /\ hist' = [hist EXCEPT ![t] = Append(@, Event("route", 0, "none", Ret(Unbound)))]
               /\ UNCHANGED <<buf, buf_exc>>
          ELSE LET o == IF res.kind = "HttpError" THEN Http(res.status) ELSE Exc
               IN /\ Goto(t, TryExcept(o, c.response, buf_exc[t]),
                          Event("route", 0, "none", o))
                  /\ UNCHANGED idx
    /\ UNCHANGED <<unitVars, routerVars, engineVars, threads, environ, out, served>>

\* `for processor in self.request_preprocessor: processor()`: the callback
\* the loop invokes at its i-th turn.
HookAtReversed(hooks, i) == hooks[Len(hooks) + 1 - i]

HookAt(hooks, i) == hooks[i]

\* One pre-request hook is invoked.
PreHook(t, eff, o) ==
    /\ pc[t] = "pre"
    /\ LET r1 == ApplyEffect(ctx[CtxKey(t)].response, "pre", eff)
           h  == Event("pre", HookAt(request_preprocessor, idx[t]), eff, o)
       IN IF o.k = "ret"
          THEN /\ Goto(t, Step(IF idx[t] < Len(request_preprocessor)
                               THEN "pre" ELSE "handler", r1, buf_exc[t], Unbound), h)
               /\ idx' = [idx EXCEPT ![t] = IF idx[t] < Len(request_preprocessor)
                                             THEN @ + 1 ELSE 1]
          ELSE /\ Goto(t, TryExcept(o, r1, buf_exc[t]), h)
               /\ UNCHANGED idx
    /\ UNCHANGED <<unitVars, routerVars, engineVars, threads, environ, out, served>>

\* `_buf = self.content.rule.make_call(path)`, `response.body = _buf`
HandlerAbortThenPost(t, eff, o) ==
    /\ pc[t] = "handler"
    /\ ctx[CtxKey(t)].rule # NoRule
    /\ LET r1 == ApplyEffect(ctx[CtxKey(t)].response, "handler", eff)
           r2 == [r1 EXCEPT !.body = o.v]
           h  == Event("handler", ctx[CtxKey(t)].rule.id, eff, o)
       IN IF o.k \in {"ret", "abort"}
          THEN IF Len(request_postprocessor) > 0
               THEN Goto(t, Step("post", r2, buf_exc[t], Unbound), h)
               ELSE Goto(t, Step("output", r2, buf_exc[t], r2.body), h)
          ELSE Goto(t, TryExcept(o, r1, buf_exc[t]), h)
    /\ idx' = [idx EXCEPT ![t] = 1]
    /\ UNCHANGED <<unitVars, routerVars, engineVars, threads, environ, out, served>>

Handler(t, eff, o) ==
    /\ pc[t] = "handler"
    /\ ctx[CtxKey(t)].rule # NoRule
    /\ LET r1 == ApplyEffect(ctx[CtxKey(t)].response, "handler", eff)
           r2 == [r1 EXCEPT !.body = o.v]
           h  == Event("handler", ctx[CtxKey(t)].rule.id, eff, o)
       IN IF o.k = "ret"
          THEN IF Len(request_postprocessor) > 0
               THEN Goto(t, Step("post", r2, buf_exc[t], Unbound), h)
               ELSE Goto(t, Step("output", r2, buf_exc[t], r2.body), h)
          ELSE Goto(t, TryExcept(o, r1, buf_exc[t]), h)
    /\ idx' = [idx EXCEPT ![t] = 1]
    /\ UNCHANGED <<unitVars, routerVars, engineVars, threads, environ, out, served>>

\* One post-request hook is invoked; after the last one
\* `return self.content.response.body`.
PostHook(t, eff, o) ==
    /\ pc[t] = "post"
    /\ LET r1 == ApplyEffect(ctx[CtxKey(t)].response, "post", eff)
           h  == Event("post", HookAt(request_postprocessor, idx[t]), eff, o)
       IN IF o.k = "ret"
          THEN IF idx[t] < Len(request_postprocessor)
               THEN Goto(t, Step("post", r1, buf_exc[t], Unbound), h)
               ELSE Goto(t, Step("output", r1, buf_exc[t], r1.body), h)
          ELSE Goto(t, TryExcept(o, r1, buf_exc[t]), h)
    /\ idx' = [idx EXCEPT ![t] = @ + 1]
    /\ UNCHANGED <<unitVars, routerVars, engineVars, threads, environ, out, served>>

\* The error-page lookup and call at the end of _request_handler.
ErrorDispatch(t, o) ==
    /\ pc[t] = "error"
    /\ LET response   == ctx[CtxKey(t)].response
           registered == response.status \in err_handler
       IN /\ (~registered => o = Ret(Unbound))
          /\ (registered => o \in ErrPageOutcomes)
          /\ Goto(t, ErrorPage(response, buf_exc[t], registered, o),
                  Event(IF registered THEN "errpage" ELSE "default",
                        response.status, "none", o))
    /\ UNCHANGED <<unitVars, routerVars, engineVars, threads, environ, idx, out, served>>

\* `response = self._make_output(buf)`, `start_response(...)`,
\* `return response.body`
Finish(t) ==
    /\ pc[t] = "output"
    /\ LET c        == ctx[CtxKey(t)]
           response == MakeOutput(c.request, c.response, buf[t])
       IN /\ ctx' = [ctx EXCEPT ![CtxKey(t)].response = response]
          /\ out' = [out EXCEPT ![t] =
                        [called |-> TRUE,
                         status_line |-> status_line(response),
                         header_fields |-> header_fields(response),
                         body |-> response.body]]
    /\ pc' = [pc EXCEPT ![t] = "done"]
    /\ UNCHANGED <<unitVars, routerVars, engineVars, threads, environ, buf, buf_exc, idx, hist, served>>

StartRequest == \E t \in threads, e \in Environs : Start(t, e)
Routing      == \E t \in threads, same \in BOOLEAN : Route(t, same)
RunPreHook   == \E t \in threads, eff \in PreEffects, o \in HookOutcomes : PreHook(t, eff, o)
RunHandler   == \E t \in threads, eff \in HandlerEffects, o \in HandlerOutcomes : Handler(t, eff, o)
RunPostHook  == \E t \in threads, eff \in PostEffects, o \in HookOutcomes : PostHook(t, eff, o)
RunErrorPage == \E t \in threads, o \in ErrPageOutcomes \cup {Ret(Unbound)} : ErrorDispatch(t, o)
Respond      == \E t \in threads : Finish(t)

Init ==
    /\ method_table = [m \in HTTP_METHOD_SET |-> << >>]
    /\ router_ret = NoCall
    /\ EngineInit
    /\ ThreadInit({1})
    /\ UnitIdle

Next ==
    \/ EngineRoute
    \/ PreRequest
    \/ PostRequest
    \/ RegisterErrorPage
    \/ StartRequest
    \/ Routing
    \/ RunPreHook
    \/ RunHandler
    \/ RunPostHook
    \/ RunErrorPage
    \/ Respond

Spec == Init /\ [][Next]_vars

\* Two transport threads serve an application that was set up the way
\* example.py sets one up: a GET route, one pre-request hook, one
\* post-request hook and error pages.
ConcInit ==
    /\ method_table = InsertLoop([m \in HTTP_METHOD_SET |-> << >>], <<"GET">>, 1,
                                 [lit |-> <<"a">>, end |-> TRUE], "index").table
    /\ router_ret = NoCall
    /\ debug \in BOOLEAN
    /\ catch = TRUE
    /\ err_handler = {403, 404}
    /\ request_preprocessor = <<1>>
    /\ request_postprocessor = <<1>>
    /\ ThreadInit({1, 2})
    /\ UnitIdle

ConcNext ==
    \/ StartRequest
    \/ Routing
    \/ RunPreHook
    \/ RunHandler
    \/ RunPostHook
    \/ RunErrorPage
    \/ Respond

SpecConc == ConcInit /\ [][ConcNext]_vars

\* One thread serving an application with one route and more than one hook
\* of each kind, registered in the order of their numbers.
HooksInit ==
    /\ method_table = InsertLoop([m \in HTTP_METHOD_SET |-> << >>], <<"GET">>, 1,
                                 [lit |-> <<"a">>, end |-> TRUE], "index").table
    /\ router_ret = NoCall
    /\ debug = FALSE
    /\ catch = TRUE
    /\ err_handler = {}
    /\ request_preprocessor = [i \in 1..(MaxHooks + 1) |-> i]
    /\ request_postprocessor = [i \in 1..(MaxHooks + 1) |-> i]
    /\ ThreadInit({1})
    /\ UnitIdle

SpecHooks == HooksInit /\ [][ConcNext]_vars

\* ------------------------------------------------------------ router claims
MatchedTable(m, u) ==
    IF m \in DOMAIN method_table /\ Matching(method_table[m], u) # {}
    THEN method_table[m] ELSE method_table["ANY"]

\* C1: when match returns a rule, that rule is the earliest-inserted rule of
\* the consulted table (the method's table, else the ANY table) whose pattern
\* matches the path; no matching rule of that table was inserted before it.
C1_FirstInsertedWins ==
    /\ (router_ret.op = "match" /\ router_ret.res.kind = "rule") =>
          LET T == MatchedTable(router_ret.method, router_ret.url)
              r == router_ret.res.rule
          IN \E i \in 1..Len(T) :
                /\ T[i] = r
                /\ RegexMatch(r.regex, router_ret.url)
                /\ \A j \in 1..Len(T) :
                      RegexMatch(T[j].regex, router_ret.url) =>
                          (i <= j /\ r.id <= T[j].id)
    /\ (/\ router_ret.op = "match"
        /\ router_ret.method \in DOMAIN method_table
        /\ Matching(method_table[router_ret.method], router_ret.url) # {}) =>
          router_ret.res.kind = "rule"

C1_Witness ==
    /\ router_ret.op = "match"
    /\ router_ret.res.kind = "rule"
    /\ Cardinality(Matching(MatchedTable(router_ret.method, router_ret.url),
                            router_ret.url)) >= 2

\* C2 (as claimed): a HEAD match returns the first matching GET rule when
\* there is one, else the first matching ANY rule, else fails with 404.
C2_HeadFallsBackToGet ==
    (router_ret.op = "match" /\ router_ret.method = "HEAD") =>
        LET u == router_ret.url
        IN IF Matching(method_table["GET"], u) # {}
           THEN /\ router_ret.res.kind = "rule"
                /\ router_ret.res.rule = FirstMatch(method_table["GET"], u)
           ELSE IF Matching(method_table["ANY"], u) # {}
           THEN /\ router_ret.res.kind = "rule"
                /\ router_ret.res.rule = FirstMatch(method_table["ANY"], u)
           ELSE router_ret.res.kind = "HttpError" /\ router_ret.res.status = 404

\* C3 (as claimed): for every method token, match returns a rule or fails
\* with HttpError 404, never with another kind of error.
C3_RuleOrNotFound ==
    router_ret.op = "match" =>
        \/ router_ret.res.kind = "rule"
        \/ router_ret.res.kind = "HttpError" /\ router_ret.res.status = 404

Unsupported(methods) ==
    {i \in 1..Len(methods) : Upper(methods[i]) \notin HTTP_METHOD_SET}

\* C4: an insert whose method list holds an unsupported token raises
\* RouterError in that call, and no table exists (so no rule is stored) under
\* the unsupported token; an insert of supported tokens only does not raise.
C4_UnsupportedMethodFailsAtInsert ==
    router_ret.op = "insert" =>
        /\ (Unsupported(router_ret.methods) # {}) <=> (router_ret.raised = "RouterError")
        /\ \A i \in Unsupported(router_ret.methods) :
              Upper(router_ret.methods[i]) \notin DOMAIN method_table
        /\ DOMAIN method_table = HTTP_METHOD_SET

C4_Witness ==
    /\ router_ret.op = "insert"
    /\ router_ret.raised = "RouterError"
    /\ Unsupported(router_ret.methods) # {}

\* ------------------------------------------------------------ engine claims
\* Positions in the request's history of thread t with an event of kind evs
\* whose outcome is one of ks.
Where(t, evs, ks) ==
    {i \in 1..Len(hist[t]) : hist[t][i].ev \in evs /\ hist[t][i].o.k \in ks}

Names(fields) == {fields[i][1] : i \in 1..Len(fields)}

Chunk(v) == List(<<U2B(v)>>)

\* C5: when a pre-hook or the handler aborts with payload P, the request
\* handler returns exactly P, the body handed to the transport is the single
\* chunk P, and no post-hook and no error-page callback is invoked.
C5_AbortReturnsPayload ==
    \A t \in threads : \A i \in Where(t, {"pre", "handler"}, {"abort"}) :
        /\ i = Len(hist[t])
        /\ Where(t, {"post", "errpage", "default"}, {"ret", "abort", "http", "exc"}) = {}
        /\ pc[t] \in {"output", "done"}
        /\ buf[t] = hist[t][i].o.v
        /\ pc[t] = "done" => (out[t].called /\ out[t].body = Chunk(hist[t][i].o.v))

C5_Witness ==
    \E t \in threads :
        /\ pc[t] = "done"
        /\ Where(t, {"handler"}, {"abort"}) # {}
        /\ Len(request_postprocessor) > 0
        /\ err_handler = ErrorCodes
        /\ out[t].body = Chunk(Str("A"))

\* C6: when the handler raises HttpError(s) and the error page registered for
\* s returns normally with no trace captured, the final status is s, the
\* final body is the value the error page returned, and the header a pre-hook
\* added to the replaced response is not among the final header fields.
C6_ErrorPageReplacesResponse ==
    \A t \in threads : \A i \in Where(t, {"handler"}, {"http"}) :
        (/\ pc[t] = "done"
         /\ Where(t, {"errpage"}, {"ret"}) = {i + 1}
         /\ buf_exc[t] = Unbound) =>
            /\ out[t].called
            /\ out[t].status_line[1] = hist[t][i].o.status
            /\ out[t].body = Chunk(hist[t][i + 1].o.v)
            /\ "framework-pre-set" \notin Names(out[t].header_fields)

C6_Witness ==
    \E t \in threads :
        /\ pc[t] = "done"
        /\ Where(t, {"pre"}, {"ret"}) # {}
        /\ Where(t, {"handler"}, {"http"}) # {}
        /\ Where(t, {"errpage"}, {"ret"}) # {}
        /\ out[t].status_line = <<403, "Forbidden">>

\* C7 (as claimed): a HEAD request to a path that a GET rule matches, in
\* which no callback fails, ends with the status the handler left on the
\* response (200, or 201 when it set one) and an empty body.
C7_HeadGetsStatusAndEmptyBody ==
    \A t \in threads :
        (/\ pc[t] \in {"done", "raised"}
         /\ Upper(environ[t].REQUEST_METHOD) = "HEAD"
         /\ Matching(method_table["GET"], environ[t].PATH_INFO) # {}
         /\ Where(t, {"pre", "handler", "post"}, {"abort", "http", "exc"}) = {}) =>
            /\ pc[t] = "done"
            /\ out[t].status_line[1] \in {200, 201}
            /\ out[t].body = Chunk(Str(""))

\* The response a request builds when only the callbacks of its own history
\* h act on it: the effects of the first n events on a fresh response.
RECURSIVE Replay(_, _)
Replay(h, n) ==
    IF n = 0 THEN HttpResponse(200, Str(""))
    ELSE LET r  == Replay(h, n - 1)
             e  == h[n]
             r1 == IF e.ev \in {"pre", "handler", "post"}
                   THEN ApplyEffect(r, e.ev, e.eff) ELSE r
         IN IF e.ev = "handler" /\ e.o.k = "ret" THEN [r1 EXCEPT !.body = e.o.v] ELSE r1

\* Status, headers and body that the history of thread t alone accounts for.
OwnResult(t) ==
    LET h   == hist[t]
        bad == Where(t, {"route", "pre", "handler", "post"}, {"abort", "http", "exc"})
    IN IF bad = {}
       THEN [resp |-> Replay(h, Len(h)), body |-> Replay(h, Len(h)).body]
       ELSE LET i == CHOOSE j \in bad : TRUE
                o == h[i].o
                e == h[i + 1]
            IN IF o.k = "abort" THEN [resp |-> Replay(h, i), body |-> o.v]
               ELSE IF e.ev = "errpage" /\ e.o.k # "ret"
               THEN [resp |-> HttpError(500),
                     body |-> IF debug THEN FormatExc ELSE HTTP_ERROR_PAGE_CONTENT]
               ELSE [resp |-> HttpError(IF o.k = "http" THEN o.status ELSE 500),
                     body |-> IF o.k = "exc" /\ debug THEN FormatExc
                              ELSE IF e.ev = "errpage" THEN e.o.v
                              ELSE HTTP_ERROR_PAGE_CONTENT]

OwnOut(t) ==
    LET r == OwnResult(t)
    IN [called |-> TRUE,
        status_line |-> status_line(r.resp),
        header_fields |-> header_fields(r.resp),
        body |-> IF Upper(environ[t].REQUEST_METHOD) = "HEAD"
                 THEN Chunk(Str("")) ELSE Chunk(r.body)]

\* C8: with two threads serving requests at once, under every interleaving,
\* the request a thread reads from the context is the one built from its own
\* environ, the response it reads carries the effects of its own callbacks
\* only, and the status, headers and body it hands to the transport are those
\* of its own request.
C8_ThreadsIsolated ==
    \A t \in threads :
        /\ pc[t] # "idle" => ctx[CtxKey(t)].request = HttpRequest(environ[t])
        /\ pc[t] \in {"pre", "handler", "post"} =>
              ctx[CtxKey(t)].response = Replay(hist[t], Len(hist[t]))
        /\ pc[t] = "done" => out[t] = OwnOut(t)

C8_Witness ==
    /\ threads = {1, 2}
    /\ pc[1] = "output" /\ Where(1, {"handler"}, {"abort"}) # {} /\ buf[1] = Str("A")
    /\ pc[2] = "done" /\ Where(2, {"post"}, {"ret"}) # {} /\ out[2].body = Chunk(Str("B"))
    /\ ctx[1].response # ctx[2].response

\* C9: a failure of a pre-hook, the handler or a post-hook that is neither an
\* abort nor an HttpError: with catching enabled it does not leave the engine,
\* the context response becomes a 500 error response and the error-page
\* dispatch runs for status 500; with catching disabled it propagates and
\* start_response is not called.
C9_UnhandledFailure ==
    \A t \in threads : \A i \in Where(t, {"pre", "handler", "post"}, {"exc"}) :
        IF catch
        THEN /\ pc[t] \in {"error", "output", "done"}
             /\ pc[t] = "error" =>
                    /\ i = Len(hist[t])
                    /\ ctx[CtxKey(t)].response = HttpError(500)
             /\ pc[t] \in {"output", "done"} =>
                    /\ Len(hist[t]) = i + 1
                    /\ hist[t][i + 1].n = 500
                    /\ hist[t][i + 1].ev = IF 500 \in err_handler THEN "errpage" ELSE "default"
             /\ pc[t] = "done" => (out[t].called /\ out[t].status_line[1] = 500)
        ELSE /\ pc[t] = "raised"
             /\ i = Len(hist[t])
             /\ ~out[t].called

C9_Witness ==
    \E t \in threads :
        /\ catch
        /\ pc[t] = "done"
        /\ Where(t, {"post"}, {"exc"}) # {}
        /\ Where(t, {"errpage"}, {"ret"}) # {}
        /\ out[t].status_line = <<500, "Internal Server Error">>

ErrorPageFailed(t) == Where(t, {"errpage"}, {"abort", "http", "exc"})

\* C10 (as claimed): when the error-page callback raises, nothing leaves the
\* engine, the final status is 500, and with debug disabled the final body
\* is the generic error page.
C10_ErrorPageFailureGenericBody ==
    \A t \in threads : \A i \in ErrorPageFailed(t) :
        /\ pc[t] \in {"output", "done"}
        /\ ctx[CtxKey(t)].response.status = 500
        /\ pc[t] = "done" =>
              /\ out[t].called
              /\ out[t].status_line[1] = 500
              /\ (~debug => out[t].body = Chunk(HTTP_ERROR_PAGE_CONTENT))

\* C10 (amended): when the error-page callback raises, nothing leaves the
\* engine, the final status is 500, and with debug disabled the request
\* handler returns the generic error page, which is the final body except
\* for a HEAD request, whose final body is empty.
C10_ErrorPageFailure ==
    \A t \in threads : \A i \in ErrorPageFailed(t) :
        /\ pc[t] \in {"output", "done"}
        /\ ctx[CtxKey(t)].response.status = 500
        /\ (~debug => buf[t] = HTTP_ERROR_PAGE_CONTENT)
        /\ pc[t] = "done" =>
              /\ out[t].called
              /\ out[t].status_line[1] = 500
              /\ (~debug => out[t].body =
                    IF Upper(environ[t].REQUEST_METHOD) = "HEAD"
                    THEN Chunk(Str("")) ELSE Chunk(HTTP_ERROR_PAGE_CONTENT))

C10_Witness ==
    \E t \in threads :
        /\ ~debug /\ ~catch
        /\ pc[t] = "done"
        /\ \E i \in ErrorPageFailed(t) : hist[t][i].n = 403
        /\ out[t].status_line[1] = 500
        /\ out[t].body = Chunk(HTTP_ERROR_PAGE_CONTENT)

\* ---------------------------------------------------- response value claims
Count(fields, name) == Cardinality({i \in 1..Len(fields) : fields[i][1] = name})

ValuesOf(headers, name) ==
    IF HasHeader(headers, name)
    THEN Len(headers[CHOOSE i \in 1..Len(headers) : headers[i].name = name].values)
    ELSE 0

\* C11 (as claimed): the header fields handed to the transport hold a
\* Content-Type field with the configured default when no Content-Type header
\* was set, hold no added default when one was set, and hold every header
\* name once per value.
C11_DefaultContentTypeInjected ==
    \A t \in threads :
        pc[t] = "done" =>
            LET h == ctx[CtxKey(t)].response.headers
                f == out[t].header_fields
            IN /\ ~HasHeader(h, "Content-Type") =>
                      \E i \in 1..Len(f) : f[i] = <<"Content-Type", default_content_type>>
               /\ HasHeader(h, "Content-Type") =>
                      Count(f, "Content-Type") = ValuesOf(h, "Content-Type")
               /\ \A i \in 1..Len(h) : Count(f, h[i].name) = Len(h[i].values)

\* ------------------------------------------------------- HttpRequest.data
MaxReads == 2

\* The declared content lengths a server passes in CONTENT_LENGTH.
Lengths == {"", "0", "1", "2"}

\* int(content_length), after `if not content_length: content_length = 0`.
IntOf(s) == CASE s = ""  -> 0
              [] s = "0" -> 0
              [] s = "1" -> 1
              [] s = "2" -> 2

\* The bytes waiting on wsgi.input.
Contents == {<<>>, <<"x">>, <<"y">>, <<"x", "y">>, <<"y", "x">>}

\* The environ entries HttpRequest.data looks at; a key may be missing.
DataEnvirons ==
    [has_type: BOOLEAN, has_length: BOOLEAN, CONTENT_LENGTH: Lengths,
     has_input: BOOLEAN, input: Contents]

Missing == [t |-> "AttributeError"]
DataBytes(s) == [t |-> "bytes", s |-> s]
DataStr(s) == [t |-> "str", s |-> s]

B2U(x) == IF x.t = "bytes" THEN DataStr(x.s) ELSE x

\* file.read(n) from position pos: at most n bytes, and the new position.
StreamRead(input, pos, n) ==
    LET k == IF Len(input) - pos < n THEN Len(input) - pos ELSE n
    IN [bytes |-> DataBytes(SubSeq(input, pos + 1, pos + k)), pos |-> pos + k]

\* The truth value python gives self._data: None and "" are both false.
Truthy(d) == d.t = "str" /\ Len(d.s) > 0

\* One access of the `data` property on request r.
Data(r) ==
    LET e == r.environ
        n == IntOf(e.CONTENT_LENGTH)
        rd == StreamRead(e.input, r.pos, n)
    IN  IF Truthy(r.data)
        THEN [r EXCEPT !.rets = Append(@, r.data)]
        ELSE IF ~e.has_type \/ ~e.has_length
        THEN [r EXCEPT !.rets = Append(@, Missing)]
        ELSE IF ~e.has_input
        THEN [r EXCEPT !.rets = Append(@, DataStr(<<>>))]
        ELSE [r EXCEPT !.data = B2U(rd.bytes), !.pos = rd.pos,
                       !.reads = @ + 1, !.rets = Append(@, B2U(rd.bytes))]

\* A fresh HttpRequest over environ e: nothing cached, nothing read.
DataRequest(e) ==
    [used |-> TRUE, environ |-> e, data |-> [t |-> "None"], pos |-> 0,
     reads |-> 0, rets |-> <<>>]

DataInit ==
    /\ AppIdle
    /\ \E e \in DataEnvirons : rq = DataRequest(e)
    /\ rs = [used |-> FALSE]
    /\ rl = [used |-> FALSE]

ReadData ==
    /\ rq.used
    /\ Len(rq.rets) < MaxReads
    /\ rq' = Data(rq)
    /\ UNCHANGED <<rs, rl, routerVars, engineVars, threadVars>>

DataNext == ReadData

SpecData == DataInit /\ [][DataNext]_vars

\* C12 (as claimed): every access of `data` returns the same value, and the
\* input stream's read is invoked at most once over the life of the request,
\* an empty body or a declared length of 0 included.
C12_DataReadOnce ==
    /\ rq.reads <= 1
    /\ \A i, j \in 1..Len(rq.rets) : rq.rets[i] = rq.rets[j]

\* ------------------------------------------------------ engine claims, II
IsHead(t) == Upper(environ[t].REQUEST_METHOD) = "HEAD"

C14_AbortKeepsResponse ==
    \A t \in threads : \A i \in Where(t, {"pre", "handler", "post"}, {"abort"}) :
        LET live == Replay(hist[t], i)
            r    == ctx[CtxKey(t)].response
        IN /\ pc[t] = "output" => r = live
           /\ pc[t] = "done" =>
                 /\ r = [live EXCEPT !.body = Chunk(hist[t][i].o.v)]
                 /\ out[t].status_line = status_line(live)
                 /\ out[t].header_fields = header_fields(live)
           /\ pc[t] \in {"output", "done"} =>
                 /\ ~r.iserr
                 /\ r.status = IF Where(t, {"handler"}, {"abort", "ret"}) # {}
                                  /\ \E j \in 1..i : hist[t][j].eff = "set_status"
                               THEN 201 ELSE 200
                 /\ (\E j \in 1..i : hist[t][j].ev = "pre" /\ hist[t][j].eff = "add_header")
                        <=> HasHeader(r.headers, "framework-pre-set")

C14_Witness ==
    \E t \in threads :
        /\ pc[t] = "done"
        /\ Where(t, {"pre"}, {"ret"}) # {}
        /\ \E i \in Where(t, {"handler"}, {"abort"}) : hist[t][i].eff = "set_status"
        /\ out[t].status_line = <<201, "Created">>
        /\ "framework-pre-set" \in Names(out[t].header_fields)

PostHeader(t) == "framework-post-set" \in Names(out[t].header_fields)

PostHeaderAdded(t) ==
    \E i \in Where(t, {"post"}, {"ret", "abort", "http", "exc"}) :
        hist[t][i].eff = "add_header"

MaxFields == 2

\* Status codes handed to HttpResponse, HttpError and set_status.
StatusCodes == {200, 404, 999, 42, 1000}

\* Arguments of set_status: integers, and text that int() may or may not take.
IntArg(n) == [t |-> "int", n |-> n, s |-> ""]
StrArg(s) == [t |-> "str", n |-> 0, s |-> s]
StatusArgs == {IntArg(n) : n \in StatusCodes} \cup {StrArg("404"), StrArg("42"), StrArg("abc")}

\* int(status_code)
PyInt(a) ==
    IF a.t = "int" THEN [ok |-> TRUE, n |-> a.n]
    ELSE CASE a.s = "404" -> [ok |-> TRUE, n |-> 404]
           [] a.s = "42"  -> [ok |-> TRUE, n |-> 42]
           [] OTHER       -> [ok |-> FALSE, n |-> 0]

\* HttpResponse.set_header
set_header(response, name, value) ==
    IF HasHeader(response.headers, name)
    THEN [response EXCEPT !.headers =
            [i \in 1..Len(@) |-> IF @[i].name = name
                                 THEN [@[i] EXCEPT !.values = <<value>>]
                                 ELSE @[i]]]
    ELSE [response EXCEPT !.headers = Append(@, [name |-> name, values |-> <<value>>])]

\* Number of header values a response holds.
RECURSIVE Fields(_)
Fields(headers) ==
    IF headers = << >> THEN 0 ELSE Len(Head(headers).values) + Fields(Tail(headers))

\* What the file system says about the path given to ssfile, and what
\* mimetypes.guess_type and os.stat say about the file. Header values are
\* kept in the form str() gives them.
Files ==
    {f \in [exists : BOOLEAN, isdir : BOOLEAN, readable : BOOLEAN,
            mime : {"text/plain"}, encoding : {"", "gzip"}, size : {"1"}] :
        ~f.exists => (~f.isdir /\ ~f.readable)}

isdir(f)  == f.exists /\ f.isdir          \* os.path.isdir
access(f) == f.exists /\ f.readable       \* os.access(filepath, os.R_OK)
exists(f) == f.exists                     \* os.path.exists

Stream(f) == [t |-> "file", v |-> "rb"]

\* Engine.ssfile(filepath) on context response `response`.
ssfile(response, f) ==
    IF isdir(f) \/ ~access(f)
    THEN [raised |-> TRUE, status |-> 403, response |-> response, body |-> Unbound]
    ELSE IF ~exists(f)
    THEN [raised |-> TRUE, status |-> 404, response |-> response, body |-> Unbound]
    ELSE LET r1 == IF f.encoding # ""
                   THEN set_header(response, "Content-Encoding", f.encoding)
                   ELSE response
             r2 == set_header(r1, "Content-Type", f.mime)
             r3 == set_header(r2, "Content-Length", f.size)
             r4 == set_header(r3, "Last-Modified", "Thu, 01 Jan 1970 00:00:00 GMT")
         IN [raised |-> FALSE, status |-> 0, response |-> r4, body |-> Stream(f)]

HeaderNames == {"Content-Type", "X-A"}
HeaderValues == {"v"}

ResponseInit ==
    /\ AppIdle
    /\ rq = [used |-> FALSE]
    /\ rs = [used |-> TRUE, response |-> HttpResponse(200, Str("")), ret |-> [op |-> "new"]]
    /\ rl = [used |-> FALSE]

\* HttpResponse(status)
NewResponse(code) ==
    /\ rs.used
    /\ rs' = [rs EXCEPT !.response = HttpResponse(code, Str("")), !.ret = [op |-> "new"]]
    /\ UNCHANGED <<rq, rl, routerVars, engineVars, threadVars>>

\* HttpError(status)
NewError(code) ==
    /\ rs.used
    /\ rs' = [rs EXCEPT !.response = HttpError(code), !.ret = [op |-> "new"]]
    /\ UNCHANGED <<rq, rl, routerVars, engineVars, threadVars>>

\* response.set_status(a): a ValueError of int() is raised again.
SetStatus(a) ==
    /\ rs.used
    /\ rs' = IF PyInt(a).ok
             THEN [rs EXCEPT !.response = set_status(@, PyInt(a).n),
                             !.ret = [op |-> "set_status", raised |-> FALSE]]
             ELSE [rs EXCEPT !.ret = [op |-> "set_status", raised |-> TRUE]]
    /\ UNCHANGED <<rq, rl, routerVars, engineVars, threadVars>>

AddHeader(name, value) ==
    /\ rs.used
    /\ Fields(rs.response.headers) < MaxFields
    /\ rs' = [rs EXCEPT !.response = add_header(@, name, value),
                        !.ret = [op |-> "add_header"]]
    /\ UNCHANGED <<rq, rl, routerVars, engineVars, threadVars>>

SetHeader(name, value) ==
    /\ rs.used
    /\ rs' = [rs EXCEPT !.response = set_header(@, name, value),
                        !.ret = [op |-> "set_header"]]
    /\ UNCHANGED <<rq, rl, routerVars, engineVars, threadVars>>

\* start_response(response.status_line, response.header_fields)
StartResponse ==
    /\ rs.used
    /\ rs' = [rs EXCEPT !.ret = [op |-> "start_response",
                                 status_line |-> status_line(rs.response),
                                 header_fields |-> header_fields(rs.response)]]
    /\ UNCHANGED <<rq, rl, routerVars, engineVars, threadVars>>

\* engine.ssfile(path) on a path in file state f.
SendFile(f) ==
    /\ rs.used
    /\ LET r == ssfile(rs.response, f)
       IN rs' = [rs EXCEPT !.response = r.response,
                           !.ret = [op |-> "ssfile", file |-> f, raised |-> r.raised,
                                    status |-> r.status, body |-> r.body]]
    /\ UNCHANGED <<rq, rl, routerVars, engineVars, threadVars>>

ResponseNext ==
    \/ \E c \in StatusCodes : NewResponse(c)
    \/ \E c \in StatusCodes : NewError(c)
    \/ \E a \in StatusArgs : SetStatus(a)
    \/ \E n \in HeaderNames, v \in HeaderValues : AddHeader(n, v)
    \/ \E n \in HeaderNames, v \in HeaderValues : SetHeader(n, v)
    \/ StartResponse
    \/ \E f \in Files : SendFile(f)

SpecResponse == ResponseInit /\ [][ResponseNext]_vars

\* C17 (as claimed): ssfile raises HttpError 403 for a directory and for an
\* existing file that cannot be read, raises HttpError 404 for a path that
\* does not exist, and only for an existing readable regular file returns a
\* stream, with Content-Type, Content-Length and Last-Modified set on the
\* context response.
C17_SsfileClassifies ==
    (rs.used /\ rs.ret.op = "ssfile") =>
        LET f == rs.ret.file
            r == rs.ret
            h == rs.response.headers
        IN /\ (f.exists /\ (f.isdir \/ ~f.readable)) => (r.raised /\ r.status = 403)
           /\ ~f.exists => (r.raised /\ r.status = 404)
           /\ (f.exists /\ ~f.isdir /\ f.readable) <=> (~r.raised /\ r.body.t = "file")
           /\ ~r.raised => /\ HasHeader(h, "Content-Type")
                           /\ HasHeader(h, "Content-Length")
                           /\ HasHeader(h, "Last-Modified")

\* C18 (as claimed): the status code of a response is always an integer of
\* three digits (100..999); neither set_status nor the HttpError constructor
\* leaves a response with a status outside that range.
C18_StatusThreeDigits ==
    rs.used => rs.response.status \in 100..999

\* C19: the status line of a response is its code followed by the reason
\* phrase of the code when the code is in the reason-phrase table (200 OK,
\* 404 Not Found), and by "Unknown Status" when it is not (999, 42, 1000).
C19_StatusLine ==
    (rs.used /\ rs.ret.op = "start_response") =>
        LET s == rs.response.status
            l == rs.ret.status_line
        IN /\ l[1] = s
           /\ s = 200 => l[2] = "OK"
           /\ s = 404 => l[2] = "Not Found"
           /\ s \in {999, 42, 1000} => l[2] = "Unknown Status"
           /\ s \in DOMAIN HTTP_STATUS <=> l[2] # "Unknown Status"

C19_Witness ==
    /\ rs.used
    /\ rs.ret.op = "start_response"
    /\ rs.response.status = 999
    /\ rs.ret.status_line = <<999, "Unknown Status">>

\* C20: in a request whose routing succeeds and whose callbacks all return
\* normally, the callbacks invoked are every registered pre-hook once in
\* registration order, then the matched handler once, then every registered
\* post-hook once in registration order, and the value returned is
\* response.body as the last post-hook left it: the handler's return value,
\* or what a post-hook assigned in its place.
C20_CallbackOrder ==
    \A t \in threads :
        (/\ pc[t] \in {"output", "done"}
         /\ \A i \in 1..Len(hist[t]) : hist[t][i].o.k = "ret"
         /\ Where(t, {"route"}, {"ret"}) # {}) =>
            LET h == hist[t]
                P == Len(request_preprocessor)
                Q == Len(request_postprocessor)
                S == Where(t, {"post"}, {"ret"})
                B == {i \in S : h[i].eff = "set_body"}
            IN /\ Len(h) = P + Q + 2
               /\ h[1].ev = "route"
               /\ \A i \in 1..P : h[1 + i].ev = "pre" /\ h[1 + i].n = request_preprocessor[i]
               /\ h[P + 2].ev = "handler" /\ h[P + 2].n = ctx[CtxKey(t)].rule.id
               /\ \A i \in 1..Q : h[P + 2 + i].ev = "post" /\ h[P + 2 + i].n = request_postprocessor[i]
               /\ buf[t] = IF B # {} THEN Str("C") ELSE h[P + 2].o.v
               /\ buf[t] = Replay(h, Len(h)).body
               /\ pc[t] = "done" => out[t].body = Chunk(buf[t])

C20_Witness ==
    \E t \in threads :
        LET h == hist[t]
            P == Len(request_preprocessor)
            Q == Len(request_postprocessor)
        IN /\ pc[t] = "done"
           /\ P > 1 /\ Q > 1
           /\ Len(h) = P + Q + 2
           /\ h[2].n = 1 /\ h[P + 1].n = P
           /\ h[P + 2].o = Ret(Str("B"))
           /\ h[P + 3].n = 1 /\ h[P + 3].eff = "add_header"
           /\ h[Len(h)].n = Q /\ h[Len(h)].eff = "set_body"
           /\ out[t].body = Chunk(Str("C"))

\* ------------------------------------------------------------ RequestRule
MaxGroups == 3
MaxArgs == 3

\* getfullargspec(callback).args: the parameter names of a handler, of which
\* the last `defaults` have a default value.
ArgNames == <<"a1", "a2", "a3", "a4", "a5">>
Handlers == {h \in [args : 0..MaxArgs, defaults : 0..MaxArgs] : h.defaults <= h.args}

\* regex.match(url).groups() for a pattern with g capture groups.
GroupValues(g) == [1..g -> {"x", "y"}]

\* dict(zip(handler_args, argv)): zip stops at the shorter of the two.
Zip(names, argv) ==
    LET n == IF Len(names) < Len(argv) THEN Len(names) ELSE Len(argv)
    IN [i \in 1..n |-> <<names[i], argv[i]>>]

\* RequestRule.update_args
update_args(rule, argv) ==
    IF rule.args = 0 THEN << >>
    ELSE Zip(SubSeq(ArgNames, 1, rule.args), argv)

\* RequestRule.make_call: self.handler(**args). Python raises TypeError, and
\* does not enter the handler, when a parameter without default gets no value.
make_call(rule, argv) ==
    LET args == update_args(rule, argv)
    IN IF Len(args) < rule.args - rule.defaults
       THEN [op |-> "make_call", raised |-> TRUE, invoked |-> FALSE, args |-> args, argv |-> argv]
       ELSE [op |-> "make_call", raised |-> FALSE, invoked |-> TRUE, args |-> args, argv |-> argv]

RuleInit ==
    /\ AppIdle
    /\ rq = [used |-> FALSE]
    /\ rs = [used |-> FALSE]
    /\ rl = [used |-> TRUE, made |-> FALSE]

\* RequestRule(regex, callback): regex has g capture groups, callback is h.
NewRule(g, h) ==
    /\ rl.used /\ ~rl.made
    /\ rl' = [used |-> TRUE, made |-> TRUE, groups |-> g, args |-> h.args,
              defaults |-> h.defaults, ret |-> [op |-> "new", raised |-> FALSE]]
    /\ UNCHANGED <<rq, rs, routerVars, engineVars, threadVars>>

\* rule.make_call(url) for a url the rule's regex matches.
MakeCall(argv) ==
    /\ rl.used /\ rl.made
    /\ rl.ret.op = "new"
    /\ rl' = [rl EXCEPT !.ret = make_call(rl, argv)]
    /\ UNCHANGED <<rq, rs, routerVars, engineVars, threadVars>>

RuleNext ==
    \/ \E g \in 0..MaxGroups, h \in Handlers : NewRule(g, h)
    \/ \E argv \in (IF rl.made THEN GroupValues(rl.groups) ELSE {}) : MakeCall(argv)

SpecRule == RuleInit /\ [][RuleNext]_vars

\* C21 (as claimed): when the pattern of a rule has a number of capture
\* groups different from the number of parameters of its handler, and the
\* handler has at least one parameter, the construction of the rule or the
\* call raises, and the handler is not invoked.
C21_ArityMismatchFails ==
    (rl.used /\ rl.made /\ rl.args >= 1 /\ rl.groups # rl.args) =>
        \/ rl.ret.raised
        \/ rl.ret.op = "new"

\* ------------------------------------------------- static files in a request
\* The handler of example.py's static_files route: `return app.ssfile(filename)`
\* inside `_buf = self.content.rule.make_call(path)`. Nothing in vanilla.py
\* closes the stream ssfile opened.
StaticFiles(t, f) ==
    /\ pc[t] = "handler"
    /\ ctx[CtxKey(t)].rule # NoRule
    /\ LET r  == ssfile(ctx[CtxKey(t)].response, f)
           id == ctx[CtxKey(t)].rule.id
       IN IF r.raised
          THEN Goto(t, TryExcept(Http(r.status), r.response, buf_exc[t]),
                    Event("handler", id, "ssfile", Http(r.status)))
          ELSE LET r2 == [r.response EXCEPT !.body = r.body]
                   h  == Event("handler", id, "ssfile", Ret(r.body))
               IN IF Len(request_postprocessor) > 0
                  THEN Goto(t, Step("post", r2, buf_exc[t], Unbound), h)
                  ELSE Goto(t, Step("output", r2, buf_exc[t], r2.body), h)
    /\ idx' = [idx EXCEPT ![t] = 1]
    /\ UNCHANGED <<unitVars, routerVars, engineVars, threads, environ, out, served>>

\* A transport that offers wsgi.file_wrapper.
StartWrapped == \E t \in threads, e \in Environs : Start(t, [e EXCEPT !.file_wrapper = TRUE])

RunStaticFiles == \E t \in threads, f \in Files : StaticFiles(t, f)

\* An application with the static file route, at most one post-hook and
\* error pages for 403 and 500.
FileInit ==
    /\ method_table = InsertLoop([m \in HTTP_METHOD_SET |-> << >>], <<"GET">>, 1,
                                 [lit |-> <<"a">>, end |-> TRUE], "index").table
    /\ router_ret = NoCall
    /\ debug \in BOOLEAN
    /\ catch = TRUE
    /\ err_handler = {403, 500}
    /\ request_preprocessor = << >>
    /\ request_postprocessor \in {<< >>, <<1>>}
    /\ ThreadInit({1})
    /\ UnitIdle

FileNext ==
    \/ StartRequest
    \/ StartWrapped
    \/ Routing
    \/ RunStaticFiles
    \/ RunPostHook
    \/ RunErrorPage
    \/ Respond

SpecFile == FileInit /\ [][FileNext]_vars

\* The requests of thread t in which ssfile opened a stream.
Opened(t) == {i \in Where(t, {"handler"}, {"ret"}) : hist[t][i].o.v.t = "file"}

\* C22 (as claimed): when the lifecycle of a request in which ssfile opened
\* a file has finished, the file is the body handed to the transport, as it
\* is or inside the transport's file wrapper; no code path closes it, so it
\* is otherwise left open and dropped.
C22_FileHandleNotDropped ==
    \A t \in threads :
        (pc[t] = "done" /\ Opened(t) # {}) => out[t].body.t \in {"file", "wrapped"}

\* C23 (as claimed): an insert that raises RouterError leaves every method
\* table as it was: no rule has been added under any method, also when a
\* supported token precedes the unsupported one in the method list.
C23_FailedInsertChangesNothing ==
    [][(router_ret'.op = "insert" /\ router_ret'.raised = "RouterError")
            => method_table' = method_table]_vars

\* ------------------------------------------- one thread, request after request
\* The transport calls wsgi() again on a thread that has finished a request.
\* _request_handler stores a new request and a new response in the thread's
\* context and nothing else; the request counter stays at its bound.
StartAgain(t, e) ==
    /\ pc[t] \in {"done", "raised"}
    /\ served[t] = MaxRequests
    /\ environ' = [environ EXCEPT ![t] = e]
    /\ ctx' = [ctx EXCEPT ![CtxKey(t)].request = HttpRequest(e),
                          ![CtxKey(t)].response = HttpResponse(200, Str(""))]
    /\ pc' = [pc EXCEPT ![t] = "routing"]
    /\ buf' = [buf EXCEPT ![t] = Unbound]
    /\ buf_exc' = [buf_exc EXCEPT ![t] = Unbound]
    /\ idx' = [idx EXCEPT ![t] = 0]
    /\ hist' = [hist EXCEPT ![t] = << >>]
    /\ out' = [out EXCEPT ![t] = NoOut]
    /\ UNCHANGED <<unitVars, routerVars, engineVars, threads, served>>

NextRequest == \E t \in threads, e \in Environs : StartAgain(t, e)

\* An application with one route and an error page for 404.
ReuseInit ==
    /\ method_table = InsertLoop([m \in HTTP_METHOD_SET |-> << >>], <<"GET">>, 1,
                                 [lit |-> <<"a">>, end |-> TRUE], "index").table
    /\ router_ret = NoCall
    /\ debug \in BOOLEAN
    /\ catch = TRUE
    /\ err_handler = {404}
    /\ request_preprocessor = << >>
    /\ request_postprocessor = << >>
    /\ ThreadInit({1})
    /\ UnitIdle

ReuseNext ==
    \/ StartRequest
    \/ NextRequest
    \/ Routing
    \/ RunHandler
    \/ RunErrorPage
    \/ Respond

SpecReuse == ReuseInit /\ [][ReuseNext]_vars

\* C24 (as claimed): in a request whose routing fails the rule field of the
\* thread's context is unset, so that reading it fails with "no such
\* context"; it never holds the rule an earlier request of the thread matched.
C24_NoStaleRule ==
    \A t \in threads :
        Where(t, {"route"}, {"http", "exc"}) # {} => ctx[CtxKey(t)].rule = NoRule

====
